---- MODULE Spec2Model ----
(***************************************************************************)
(* The email verification-code lifecycle of Tixoraa:                       *)
(*   - the code store of test-verification-code.js (the table              *)
(*     verification_codes and the three statements run against it),       *)
(*   - the callers that redeem a code (lookup, then markUsed),             *)
(*   - the delivery adapters that hand a code to the email provider,       *)
(*   - the routines that create the table: the tool's own and the          *)
(*     migration of test-perplexity-integration.js,                        *)
(*   - the code generators of the scripts,                                 *)
(*   - the run of the verification tool, from the validation of its input  *)
(*     email to pool.end(),                                                *)
(* and two scripts beside it: the public-events job of                     *)
(* fetchPublicEvents.ts and the environment verification script.           *)
(* Time is counted in minutes.                                             *)
(***************************************************************************)
EXTENDS Integers, Sequences, FiniteSets, TLC

\* ------------------------------------------------------------ bounds
MaxRows == 2
MaxTime == 45
TickStep == 15
RandDenom == 4
MaxMarkCalls == 2
MaxEnsureCalls == 3
MaxEmailLen == 5
\* the events one sync stores
MaxEvents == 2
\* the environment variables that are unset or empty in one environment
MaxMissing == 2

\* ------------------------------------------------------------ program constants
\* expires_at TIMESTAMP NOT NULL DEFAULT (NOW() + INTERVAL '30 minutes')
TTL == 30
\* JavaScript null, returned by saveVerificationCode / checkVerificationCode
Null == 0
\* code VARCHAR(10) NOT NULL
CodeWidth == 10

Callers == {1, 2}
Emails == {"a@b.com", "user@test.com"}
\* A decimal string is the sequence of its digits.
Codes == {<<1, 2, 3, 4, 5, 6>>, <<6, 5, 4, 3, 2, 1>>}
Types == {"verification", "signup"}

VARIABLES
    rows,      \* table verification_codes: rows[i] is the row with id = i
    now,       \* the database clock NOW(), in minutes
    caller     \* per caller: the locals of its current redemption sequence

VARIABLES
    mail       \* the last run of a delivery adapter

VARIABLES
    gen        \* the last code a script generated

VARIABLES
    schema,    \* the table verification_codes as created, and its indexes
    migrate    \* the last run of the migration script

VARIABLES
    tool       \* the run of the verification tool: where it is and its locals

VARIABLES
    events,    \* table external_events: the stored events
    job        \* the run of the public-events job: where it is and its locals

VARIABLES
    verify     \* the run of the environment verification script

vars == <<rows, now, caller, mail, gen, schema, migrate, tool, events, job, verify>>

Ids == 1..Len(rows)

\* ------------------------------------------------------------ the schema
\* No table verification_codes in the database.
NoTable ==
    [exists |-> FALSE, columns |-> {}, required |-> {}, varchar |-> FALSE,
     indexes |-> {}]

\* CREATE TABLE of test-verification-code.js. required: the NOT NULL columns
\* without a default; varchar: code is VARCHAR(CodeWidth).
ToolTable ==
    [exists |-> TRUE,
     columns |-> {"id", "email", "code", "type", "created_at", "expires_at", "used"},
     required |-> {"email", "code"}, varchar |-> TRUE, indexes |-> {}]

\* CREATE TABLE of the migration script (test-perplexity-integration.js).
MigrationTable ==
    [exists |-> TRUE,
     columns |-> {"id", "user_id", "email", "code", "type", "metadata",
                  "expires_at", "is_used", "created_at"},
     required |-> {"user_id", "email", "code", "expires_at"}, varchar |-> FALSE,
     indexes |-> {}]

\* The columns of the four CREATE INDEX IF NOT EXISTS statements.
Indexes == {"email", "user_id", "code", "expires_at"}

\* INSERT INTO verification_codes (email, code, type) runs without error.
InsertRuns(code) ==
    /\ schema.exists
    /\ {"email", "code", "type"} \subseteq schema.columns
    /\ schema.required \subseteq {"email", "code", "type"}
    /\ schema.varchar => Len(code) <= CodeWidth

\* The SELECT of checkVerificationCode runs without error.
SelectRuns ==
    /\ schema.exists
    /\ {"id", "email", "code", "type", "expires_at", "used", "created_at"}
           \subseteq schema.columns

\* The UPDATE of markVerificationCodeAsUsed runs without error.
UpdateRuns ==
    /\ schema.exists
    /\ {"id", "used"} \subseteq schema.columns

\* ------------------------------------------------------------ the store
\* INSERT INTO verification_codes (email, code, type) VALUES ($1, $2, $3):
\* id is SERIAL, created_at / expires_at / used take the column defaults.
NewRow(id, email, code, type, t) ==
    [id |-> id, email |-> email, code |-> code, type |-> type,
     created_at |-> t, expires_at |-> t + TTL, used |-> FALSE]

\* The WHERE clause without "AND used = FALSE".
RedeemableIgnoringUsed(r, email, code, t) ==
    /\ r.email = email
    /\ r.code = code
    /\ r.type = "verification"
    /\ r.expires_at > t

\* The WHERE clause with "expires_at >= NOW()".
RedeemableAtExpiry(r, email, code, t) ==
    /\ r.email = email
    /\ r.code = code
    /\ r.type = "verification"
    /\ r.expires_at >= t
    /\ r.used = FALSE

\* WHERE email = $1 AND code = $2 AND type = 'verification'
\*   AND expires_at > NOW() AND used = FALSE
Redeemable(r, email, code, t) ==
    /\ r.email = email
    /\ r.code = code
    /\ r.type = "verification"
    /\ r.expires_at > t
    /\ r.used = FALSE

\* ORDER BY created_at DESC LIMIT 1: the ids the query may return (rows with
\* equal created_at come back in an unspecified order).
SelectLatest(table, email, code, t) ==
    LET match == {i \in 1..Len(table) : Redeemable(table[i], email, code, t)}
    IN  {i \in match : \A j \in match : table[j].created_at <= table[i].created_at}

\* A lookup that tells why it found nothing: -1 when a row with the email and
\* code is stored but used or expired, null when none is stored.
CheckResultWithReason(table, email, code, t) ==
    IF SelectLatest(table, email, code, t) # {}
    THEN SelectLatest(table, email, code, t)
    ELSE IF \E i \in 1..Len(table) :
                table[i].email = email /\ table[i].code = code
         THEN {-1}
         ELSE {Null}

\* What checkVerificationCode may return when the query runs: null when
\* result.rows is empty, else result.rows[0].id.
CheckResult(table, email, code, t) ==
    IF SelectLatest(table, email, code, t) = {}
    THEN {Null}
    ELSE SelectLatest(table, email, code, t)

\* An UPDATE that flips the flag: SET used = NOT used.
SetUsedToggle(table, id) ==
    [i \in 1..Len(table) |->
        IF table[i].id = id THEN [table[i] EXCEPT !.used = ~@] ELSE table[i]]

\* An UPDATE without WHERE clause: SET used = (id = $1).
SetUsedOnlyHere(table, id) ==
    [i \in 1..Len(table) |-> [table[i] EXCEPT !.used = (table[i].id = id)]]

\* An UPDATE without WHERE clause: SET used = TRUE.
SetUsedEveryRow(table, id) ==
    [i \in 1..Len(table) |-> [table[i] EXCEPT !.used = TRUE]]

\* An UPDATE whose WHERE clause matches no row.
SetUsedNoRow(table, id) == table

\* UPDATE verification_codes SET used = TRUE WHERE id = $1
SetUsed(table, id) ==
    [i \in 1..Len(table) |->
        IF table[i].id = id THEN [table[i] EXCEPT !.used = TRUE] ELSE table[i]]

\* ------------------------------------------------------------ callers
\* op: the last call; ret: what save / check returned; marked: what mark returned;
\* usedId: the id passed to mark; fault: the last call's query threw; calls: the
\* number of mark calls made with usedId; reached: the last call's statement
\* was received by the database; queries: the pool.query calls the last call
\* made.
NoCall ==
    [op |-> "none", email |-> "", code |-> <<>>, ret |-> Null,
     marked |-> FALSE, fault |-> FALSE, usedId |-> Null, calls |-> 0,
     reached |-> FALSE, queries |-> 0]

\* saveVerificationCode(email, code, type): the id of the new row, or null when
\* the query throws: the database is not reached (ok = FALSE) or it rejects the
\* INSERT.
saveVerificationCode(p, email, code, type, ok) ==
    /\ Len(rows) < MaxRows
    /\ IF ok /\ InsertRuns(code)
       THEN /\ rows' = Append(rows, NewRow(Len(rows) + 1, email, code, type, now))
            /\ caller' = [caller EXCEPT ![p] =
                   [NoCall EXCEPT !.op = "save", !.email = email, !.code = code,
                                  !.ret = Len(rows) + 1, !.reached = TRUE,
                                  !.queries = 1]]
       ELSE /\ rows' = rows
            /\ caller' = [caller EXCEPT ![p] =
                   [NoCall EXCEPT !.op = "save", !.email = email, !.code = code,
                                  !.ret = Null, !.fault = TRUE, !.reached = ok,
                                  !.queries = 1]]
    /\ UNCHANGED <<now, mail, schema>>

\* checkVerificationCode(email, code): the id of the row found, or null; null
\* as well when the query throws. A lookup with the key of the sequence in
\* progress keeps the sequence's locals, another key starts a new sequence.
checkVerificationCode(p, email, code, ok) ==
    LET same == caller[p].email = email /\ caller[p].code = code
        base == IF same THEN caller[p] ELSE NoCall
        runs == ok /\ SelectRuns
    IN  /\ \E r \in (IF runs THEN CheckResult(rows, email, code, now) ELSE {Null}) :
              caller' = [caller EXCEPT ![p] =
                  [base EXCEPT !.op = "check", !.email = email, !.code = code,
                               !.ret = r, !.fault = ~runs, !.reached = ok,
                               !.queries = 1]]
        /\ UNCHANGED <<rows, now, mail, schema>>

\* The id a caller passes to markVerificationCodeAsUsed: the id its lookup
\* returned, or on a repeated call the id of the previous call.
MarkArg(p) ==
    IF caller[p].op = "check" THEN caller[p].ret ELSE caller[p].usedId

\* markVerificationCodeAsUsed(id): true, or false when the query throws.
markVerificationCodeAsUsed(p, ok) ==
    LET runs == ok /\ UpdateRuns
    IN  /\ \/ caller[p].op = "check" /\ caller[p].ret # Null
           \/ caller[p].op = "mark" /\ caller[p].calls < MaxMarkCalls
        /\ rows' = IF runs THEN SetUsed(rows, MarkArg(p)) ELSE rows
        /\ caller' = [caller EXCEPT ![p] =
               [@ EXCEPT !.op = "mark", !.usedId = MarkArg(p), !.marked = runs,
                         !.fault = ~runs, !.reached = ok, !.queries = 1,
                         !.calls = IF caller[p].op = "check" THEN 1 ELSE @ + 1]]
        /\ UNCHANGED <<now, mail, schema>>

\* Time passes and an expiry sweep deletes the rows that have expired.
TickSweeping ==
    /\ now + TickStep <= MaxTime
    /\ now' = now + TickStep
    /\ rows' = SelectSeq(rows, LAMBDA r : r.expires_at > now + TickStep)
    /\ UNCHANGED <<caller, mail, schema>>

\* Time passes between two statements.
Tick ==
    /\ now + TickStep <= MaxTime
    /\ now' = now + TickStep
    /\ UNCHANGED <<rows, caller, mail, schema>>

\* ------------------------------------------------------------ table creation
\* createVerificationCodesTable() of test-verification-code.js: CREATE TABLE IF
\* NOT EXISTS does nothing when a table of that name exists.
createVerificationCodesTable(ok) ==
    /\ schema' = IF ok /\ ~schema.exists THEN ToolTable ELSE schema
    /\ UNCHANGED <<rows, now, caller, mail>>

\* The statements of the migration script a run may fail at.
FailPoints == {"none", "connect", "exists", "create", "index", "validate"}

\* createVerificationCodesTable() of the migration script on schema s: the
\* schema it leaves and the value it returns. It returns true as soon as it
\* finds the table; the four indexes are created in one multi-statement query.
migrationCreateVerificationCodesTable(s, fail) ==
    IF fail = "exists" THEN [schema |-> s, ret |-> FALSE]
    ELSE IF s.exists THEN [schema |-> s, ret |-> TRUE]
    ELSE IF fail = "create" THEN [schema |-> s, ret |-> FALSE]
    ELSE IF fail = "index" THEN [schema |-> MigrationTable, ret |-> FALSE]
    ELSE [schema |-> [MigrationTable EXCEPT !.indexes = Indexes], ret |-> TRUE]

\* calls: the runs so far; ret: what the last run returned; tableCreated: what
\* its createVerificationCodesTable() returned; failed: one of its statements
\* threw.
NoMigration ==
    [calls |-> 0, ret |-> FALSE, tableCreated |-> FALSE, failed |-> FALSE]

\* ensureVerificationCodesTable(): false when SELECT 1 throws, else true.
ensureVerificationCodesTable(fail) ==
    LET r == migrationCreateVerificationCodesTable(schema, fail)
    IN  /\ migrate.calls < MaxEnsureCalls
        /\ IF fail = "connect"
           THEN /\ schema' = schema
                /\ migrate' = [calls |-> migrate.calls + 1, ret |-> FALSE,
                               tableCreated |-> FALSE, failed |-> TRUE]
           ELSE /\ schema' = r.schema
                /\ migrate' = [calls |-> migrate.calls + 1, ret |-> TRUE,
                               tableCreated |-> r.ret,
                               failed |-> ~r.ret \/ fail = "validate"]
        /\ UNCHANGED <<rows, now, caller, mail>>

\* ------------------------------------------------------------ delivery adapters
\* Number.prototype.toString(): the decimal digits of a natural number.
RECURSIVE toString(_)
toString(n) == IF n < 10 THEN <<n>> ELSE Append(toString(n \div 10), n % 10)

\* Math.random() returns r / RandDenom for a draw r in RandomDraws.
RandomDraws == 0..(RandDenom - 1)

\* Math.floor(100000 + Math.random() * 900000).toString()
generateVerificationCode(r) == toString(100000 + ((r * 900000) \div RandDenom))

\* What the provider answers to a send request: accepted, or one of the errors
\* sgMail.send rejects with.
Responses == {"202", "401", "403", "429", "network"}

NoMail ==
    [fn |-> "none", to |-> "", code |-> <<>>, response |-> "none", requests |-> 0,
     outcome |-> "none", success |-> FALSE, resultCode |-> <<>>]

\* A send that revokes the code when it cannot deliver it: it sets the rows of
\* the email and code used.
sendVerificationCodeEmailRevoking(email, code, apiKey, fromEmail, initOk, response) ==
    /\ mail' =
         IF ~apiKey \/ ~fromEmail \/ ~initOk
         THEN [NoMail EXCEPT !.fn = "sendVerificationCodeEmail", !.to = email,
                             !.code = code, !.outcome = "returned"]
         ELSE [NoMail EXCEPT !.fn = "sendVerificationCodeEmail", !.to = email,
                             !.code = code, !.response = response, !.requests = 1,
                             !.outcome = "returned", !.success = (response = "202")]
    /\ rows' = [i \in 1..Len(rows) |->
                   IF /\ ~(apiKey /\ fromEmail /\ initOk /\ response = "202")
                      /\ rows[i].email = email /\ rows[i].code = code
                   THEN [rows[i] EXCEPT !.used = TRUE] ELSE rows[i]]
    /\ UNCHANGED <<now, caller, schema>>

\* A send that repeats the provider request once after an error response.
sendVerificationCodeEmailRetrying(email, code, apiKey, fromEmail, initOk, response) ==
    /\ mail' =
         IF ~apiKey \/ ~fromEmail \/ ~initOk
         THEN [NoMail EXCEPT !.fn = "sendVerificationCodeEmail", !.to = email,
                             !.code = code, !.outcome = "returned"]
         ELSE [NoMail EXCEPT !.fn = "sendVerificationCodeEmail", !.to = email,
                             !.code = code, !.response = response,
                             !.requests = IF response = "202" THEN 1 ELSE 2,
                             !.outcome = "returned", !.success = (response = "202")]
    /\ UNCHANGED <<rows, now, caller, schema>>

\* sendVerificationCodeEmail(email, code): true when the provider accepted the
\* message, false when a variable is missing, the client cannot be initialised or
\* the provider call throws.
sendVerificationCodeEmail(email, code, apiKey, fromEmail, initOk, response) ==
    /\ mail' =
         IF ~apiKey \/ ~fromEmail \/ ~initOk
         THEN [NoMail EXCEPT !.fn = "sendVerificationCodeEmail", !.to = email,
                             !.code = code, !.outcome = "returned"]
         ELSE [NoMail EXCEPT !.fn = "sendVerificationCodeEmail", !.to = email,
                             !.code = code, !.response = response, !.requests = 1,
                             !.outcome = "returned", !.success = (response = "202")]
    /\ UNCHANGED <<rows, now, caller, schema>>

\* testSendVerificationCode(): {code, success}; r is the draw of the code placed
\* in the email, r2 the draw of the generateVerificationCode() call in the catch
\* block.
testSendVerificationCode(email, r, r2, response) ==
    /\ mail' =
         [NoMail EXCEPT !.fn = "testSendVerificationCode", !.to = email,
                        !.code = generateVerificationCode(r),
                        !.response = response, !.requests = 1,
                        !.outcome = "returned", !.success = (response = "202"),
                        !.resultCode = IF response = "202"
                                       THEN generateVerificationCode(r)
                                       ELSE generateVerificationCode(r2)]
    /\ UNCHANGED <<rows, now, caller, schema>>

\* Array.from({ length: 6 }, () => Math.floor(Math.random() * 10)).join(''):
\* one draw per digit.
generateDigits(ds) == [i \in 1..6 |-> (ds[i] * 10) \div RandDenom]

\* sendTestEmail(): returns after the provider accepted the message; calls
\* process.exit(1) when SENDGRID_API_KEY is missing or the provider call throws.
sendTestEmail(email, ds, apiKey, response) ==
    /\ mail' =
         IF ~apiKey
         THEN [NoMail EXCEPT !.fn = "sendTestEmail", !.to = email,
                             !.outcome = "exit 1"]
         ELSE [NoMail EXCEPT !.fn = "sendTestEmail", !.to = email,
                             !.code = generateDigits(ds),
                             !.response = response, !.requests = 1,
                             !.outcome = IF response = "202" THEN "returned"
                                         ELSE "exit 1",
                             !.success = (response = "202")]
    /\ UNCHANGED <<rows, now, caller, schema>>

\* ------------------------------------------------------------ the verification tool
\* The characters an input email is made of: a letter, the at sign, the dot and
\* a white-space character.
EmailChars == {"a", "@", ".", " "}

\* The strings given to the tool as email: every string of at most MaxEmailLen
\* characters.
InputEmails == UNION {[1..n -> EmailChars] : n \in 0..MaxEmailLen}

\* /^[^\s@]+@[^\s@]+\.[^\s@]+$/.test(email): one at sign, after at least one
\* character; behind it a dot with at least one character on each side; no
\* white space and no other at sign.
isValidEmail(email) ==
    \E i, k \in 1..Len(email) :
        /\ email[i] = "@" /\ i > 1
        /\ email[k] = "." /\ k > i + 1 /\ k < Len(email)
        /\ \A j \in (1..Len(email)) \ {i} : email[j] \notin {" ", "@"}

\* pc: the statement of run() / runVerificationTest() the tool executes next;
\* statements: the pool.query calls made; sends: the sgMail.send calls made;
\* ends: the pool.end() calls made. codeId and verifiedCodeId are the locals of
\* caller 1.
NoRun ==
    [pc |-> "idle", email |-> <<>>, code |-> <<>>, statements |-> 0, sends |-> 0,
     ends |-> 0]

\* A run() that starts the test before it validates the email.
runUnvalidated(email) ==
    /\ tool.pc = "idle"
    /\ tool' = [tool EXCEPT !.email = email, !.pc = "connect"]
    /\ UNCHANGED <<rows, now, caller, mail, schema>>

\* run(): the email is validated first; an invalid one is reported and run()
\* returns.
run(email) ==
    /\ tool.pc = "idle"
    /\ tool' = [tool EXCEPT !.email = email,
                            !.pc = IF isValidEmail(email) THEN "connect"
                                   ELSE "rejected"]
    /\ UNCHANGED <<rows, now, caller, mail, schema>>

\* await pool.query('SELECT NOW()')
runConnect(ok) ==
    /\ tool.pc = "connect"
    /\ tool' = [tool EXCEPT !.statements = @ + 1,
                            !.pc = IF ok THEN "table" ELSE "end"]
    /\ UNCHANGED <<rows, now, caller, mail, schema>>

\* checkVerificationCodesTable(): false as well when the query throws.
runCheckTable(ok) ==
    /\ tool.pc = "table"
    /\ tool' = [tool EXCEPT !.statements = @ + 1,
                            !.pc = IF ok /\ schema.exists THEN "save" ELSE "create"]
    /\ UNCHANGED <<rows, now, caller, mail, schema>>

\* const created = await createVerificationCodesTable(); if (!created) return;
runCreateTable(ok) ==
    /\ tool.pc = "create"
    /\ createVerificationCodesTable(ok)
    /\ tool' = [tool EXCEPT !.statements = @ + 1,
                            !.pc = IF ok THEN "save" ELSE "end"]

\* A save step without "if (!codeId) return;".
runSaveUnchecked(r, ok) ==
    /\ tool.pc = "save"
    /\ saveVerificationCode(1, tool.email, generateVerificationCode(r),
                            "verification", ok)
    /\ tool' = [tool EXCEPT !.code = generateVerificationCode(r),
                            !.statements = @ + 1, !.pc = "send"]

\* const code = generateVerificationCode();
\* const codeId = await saveVerificationCode(email, code);
runSave(r, ok) ==
    /\ tool.pc = "save"
    /\ saveVerificationCode(1, tool.email, generateVerificationCode(r),
                            "verification", ok)
    /\ tool' = [tool EXCEPT !.code = generateVerificationCode(r),
                            !.statements = @ + 1,
                            !.pc = IF caller'[1].ret # Null THEN "send" ELSE "end"]

\* const emailSent = await sendVerificationCodeEmail(email, code);
runSend(apiKey, fromEmail, initOk, response) ==
    /\ tool.pc = "send"
    /\ sendVerificationCodeEmail(tool.email, tool.code, apiKey, fromEmail, initOk,
                                 response)
    /\ tool' = [tool EXCEPT !.sends = @ + mail'.requests,
                            !.pc = IF mail'.success THEN "wait" ELSE "end"]

\* await new Promise(resolve => setTimeout(resolve, 5000))
runWait ==
    /\ tool.pc = "wait"
    /\ tool' = [tool EXCEPT !.pc = "check"]
    /\ UNCHANGED <<rows, now, caller, mail, schema>>

\* A lookup step that ends the process when no row is found, without
\* returning to run().
runCheckExiting(ok) ==
    /\ tool.pc = "check"
    /\ checkVerificationCode(1, tool.email, tool.code, ok)
    /\ tool' = [tool EXCEPT !.statements = @ + 1,
                            !.pc = IF caller'[1].ret # Null THEN "mark" ELSE "closed"]

\* const verifiedCodeId = await checkVerificationCode(email, code);
runCheck(ok) ==
    /\ tool.pc = "check"
    /\ checkVerificationCode(1, tool.email, tool.code, ok)
    /\ tool' = [tool EXCEPT !.statements = @ + 1,
                            !.pc = IF caller'[1].ret # Null THEN "mark" ELSE "end"]

\* const marked = await markVerificationCodeAsUsed(verifiedCodeId);
runMark(ok) ==
    /\ tool.pc = "mark"
    /\ markVerificationCodeAsUsed(1, ok)
    /\ tool' = [tool EXCEPT !.statements = @ + 1, !.pc = "end"]

\* runVerificationTest() has returned: await pool.end()
runEnd ==
    /\ tool.pc = "end"
    /\ tool' = [tool EXCEPT !.pc = "closed", !.ends = @ + 1]
    /\ UNCHANGED <<rows, now, caller, mail, schema>>

\* testSendGridVerification(testEmail) of part_000: false without a send when
\* the email is missing or invalid, else true iff the provider answers 2xx.
testSendGridVerification(testEmail, r, response) ==
    /\ mail' =
         IF testEmail = <<>> \/ ~isValidEmail(testEmail)
         THEN [NoMail EXCEPT !.fn = "testSendGridVerification", !.to = testEmail,
                             !.outcome = "returned"]
         ELSE [NoMail EXCEPT !.fn = "testSendGridVerification", !.to = testEmail,
                             !.code = generateVerificationCode(r),
                             !.response = response, !.requests = 1,
                             !.outcome = "returned", !.success = (response = "202")]
    /\ UNCHANGED <<rows, now, caller, schema>>

\* ------------------------------------------------------------ code generators
\* The scripts whose generateVerificationCode is
\* Math.floor(100000 + Math.random() * 900000).toString().
FloorScripts == {"test-verification-code.js", "test-sendgrid-service-new.js"}

\* The scripts whose generateVerificationCode joins six random digits.
JoinScripts == {"part_010", "test-email-service.js"}

NoCode == [script |-> "none", code |-> <<>>]

\* One call of generateVerificationCode() in a script of FloorScripts.
GenerateFloor(script, r) ==
    /\ gen' = [script |-> script, code |-> generateVerificationCode(r)]
    /\ UNCHANGED <<rows, now, caller, mail, schema>>

\* One call of generateVerificationCode() in a script of JoinScripts.
GenerateJoin(script, ds) ==
    /\ gen' = [script |-> script, code |-> generateDigits(ds)]
    /\ UNCHANGED <<rows, now, caller, mail, schema>>

\* parseInt(code, 10) of a string of decimal digits.
RECURSIVE parseInt(_)
parseInt(ds) ==
    IF ds = <<>> THEN 0
    ELSE 10 * parseInt(SubSeq(ds, 1, Len(ds) - 1)) + ds[Len(ds)]

\* ------------------------------------------------------------ the public-events job
\* A text is the sequence of its characters. excludedKeywords of
\* fetchPublicEvents().
excludedKeywords ==
    <<<<"p", "r", "o", "t", "e", "s", "t">>,
      <<"r", "a", "l", "l", "y">>,
      <<"p", "o", "l", "i", "t", "i", "c", "a", "l">>,
      <<"p", "o", "l", "i", "t", "i", "c", "s">>,
      <<"e", "l", "e", "c", "t", "i", "o", "n">>,
      <<"c", "a", "n", "d", "i", "d", "a", "t", "e">>,
      <<"d", "e", "b", "a", "t", "e">>,
      <<"c", "a", "m", "p", "a", "i", "g", "n">>,
      <<"r", "e", "f", "e", "r", "e", "n", "d", "u", "m">>,
      <<"b", "a", "l", "l", "o", "t">>>>

\* The titles and descriptions of the events the sync stores: "Jazz", "Rally"
\* and "Ballots".
Texts == {<<"J", "a", "z", "z">>, <<"R", "a", "l", "l", "y">>, <<"B", "a", "l", "l", "o", "t", "s">>}

Sources == {"eventbrite", "ticketmaster"}

\* What the sync may store for one event; old: its endDate is more than 14
\* days in the past.
EventShapes ==
    [source : Sources, title : Texts, description : Texts, old : BOOLEAN]

\* The events one sync stores, listed in f: they get the ids 1, 2, ...
Batch(f) == {[id |-> i, event |-> f[i]] : i \in DOMAIN f}

\* lower() / toLowerCase() on the characters the texts are made of.
toLowerCase(text) ==
    [i \in 1..Len(text) |->
        CASE text[i] = "J" -> "j" [] text[i] = "R" -> "r" [] text[i] = "B" -> "b"
          [] OTHER -> text[i]]

\* text like '%' + keyword + '%'
Like(text, keyword) ==
    \E i \in 1..(Len(text) - Len(keyword) + 1) :
        SubSeq(text, i, i + Len(keyword) - 1) = keyword

\* pc: the statement of fetchPublicEvents() the job executes next; k: the index
\* of the keyword of the current loop iteration; removed:
\* totalRemovedKeywordEvents.
NoJob == [pc |-> "idle", k |-> 0, removed |-> 0]

\* await syncAllExternalEvents(): the sync stores a batch of events; an error
\* ends the job with exit status 1.
syncAllExternalEvents(batch, ok) ==
    /\ job.pc = "idle"
    /\ events' = IF ok THEN batch ELSE events
    /\ job' = [job EXCEPT !.pc = IF ok THEN "past" ELSE "failed"]

\* db.delete(externalEvents).where(lt(externalEvents.endDate, twoWeeksAgo))
deletePastEvents(ok) ==
    /\ job.pc = "past"
    /\ events' = IF ok THEN {e \in events : ~e.event.old} ELSE events
    /\ job' = [job EXCEPT !.pc = IF ok THEN "keywords" ELSE "failed",
                          !.k = IF ok THEN 1 ELSE @]

\* One iteration of "for (const keyword of excludedKeywords)": the events of
\* source eventbrite with the keyword in the title are deleted; of those with
\* the keyword in the description, the one the query returned first, whichever
\* it is, is deleted (idsToDelete[0]).
removeKeywordEvents(ok) ==
    LET keyword == toLowerCase(excludedKeywords[job.k])
        removedFromTitle ==
            {e \in events : /\ e.event.source = "eventbrite"
                            /\ Like(toLowerCase(e.event.title), keyword)}
        afterTitle == events \ removedFromTitle
        eventsWithKeywordInDesc ==
            {e \in afterTitle : /\ e.event.source = "eventbrite"
                                /\ Like(toLowerCase(e.event.description), keyword)}
    IN  /\ job.pc = "keywords"
        /\ IF ~ok
           THEN /\ events' = events
                /\ job' = [job EXCEPT !.pc = "failed"]
           ELSE \E removedFromDesc \in
                    (IF eventsWithKeywordInDesc = {} THEN {{}}
                     ELSE {{e} : e \in eventsWithKeywordInDesc}) :
                    /\ events' = afterTitle \ removedFromDesc
                    /\ job' = [job EXCEPT
                           !.removed = @ + Cardinality(removedFromTitle)
                                         + Cardinality(removedFromDesc),
                           !.k = IF job.k < Len(excludedKeywords) THEN @ + 1 ELSE @,
                           !.pc = IF job.k < Len(excludedKeywords) THEN "keywords"
                                  ELSE "stats"]

\* Step 3: the statistics query and the summary; the job exits with status 0.
printStatistics(ok) ==
    /\ job.pc = "stats"
    /\ job' = [job EXCEPT !.pc = IF ok THEN "done" ELSE "failed"]
    /\ UNCHANGED events

\* ------------------------------------------------------------ the environment check
\* The names of requiredEnvVars, in the order of Object.entries.
requiredEnvVars ==
    <<"VITE_FIREBASE_API_KEY", "VITE_FIREBASE_AUTH_DOMAIN",
      "VITE_FIREBASE_PROJECT_ID", "VITE_FIREBASE_STORAGE_BUCKET",
      "VITE_FIREBASE_MESSAGING_SENDER_ID", "VITE_FIREBASE_APP_ID",
      "VITE_FIREBASE_MEASUREMENT_ID", "FIREBASE_PROJECT_ID",
      "FIREBASE_PRIVATE_KEY", "FIREBASE_CLIENT_EMAIL",
      "VITE_STRIPE_PUBLIC_KEY", "STRIPE_SECRET_KEY",
      "TWILIO_ACCOUNT_SID", "TWILIO_AUTH_TOKEN", "TWILIO_PHONE_NUMBER",
      "SENDGRID_API_KEY", "OPENAI_API_KEY",
      "EVENTBRITE_API_KEY", "TICKETMASTER_API_KEY">>

optionalEnvVars == <<"SESSION_SECRET", "PORT", "VITE_APP_URL">>

EnvNames ==
    {requiredEnvVars[i] : i \in 1..Len(requiredEnvVars)}
        \cup {optionalEnvVars[i] : i \in 1..Len(optionalEnvVars)}

\* The sets of at most n names.
RECURSIVE NamesUpTo(_)
NamesUpTo(n) ==
    IF n = 0 THEN {{}}
    ELSE LET less == NamesUpTo(n - 1)
         IN  less \cup {S \cup {v} : S \in less, v \in EnvNames}

\* process.env with the names of unset not set, the names of empty set to the
\* empty string and every other name set to a non-empty string.
ProcessEnv(unset, empty) ==
    [name \in EnvNames |->
        IF name \in unset THEN "undefined"
        ELSE IF name \in empty THEN "" ELSE "value"]

\* The environments the script is run in: at most MaxMissing names are unset
\* or empty.
Environments ==
    {ProcessEnv(S \ E, E) : <<S, E>> \in
        UNION {{<<S, E>> : E \in SUBSET S} : S \in NamesUpTo(MaxMissing)}}

\* if (process.env[name]): undefined and the empty string are falsy.
Truthy(value) == value \notin {"undefined", ""}

\* const status = { present: 0, missing: 0, total: 0 }
NoStatus == [present |-> 0, missing |-> 0, total |-> 0]

\* A check that counts every missing variable as missing, required or not.
checkEnvVarStrict(status, env, name, required) ==
    IF Truthy(env[name])
    THEN [status EXCEPT !.total = @ + 1, !.present = @ + 1]
    ELSE [status EXCEPT !.total = @ + 1, !.missing = @ + 1]

\* checkEnvVar(name, required): the status after the call.
checkEnvVar(status, env, name, required) ==
    IF Truthy(env[name])
    THEN [status EXCEPT !.total = @ + 1, !.present = @ + 1]
    ELSE [status EXCEPT !.total = @ + 1,
                        !.missing = IF required THEN @ + 1 ELSE @]

\* for (const envVar of vars) checkEnvVar(envVar, required)
RECURSIVE CheckEach(_, _, _, _)
CheckEach(status, env, names, required) ==
    IF names = <<>> THEN status
    ELSE CheckEach(checkEnvVar(status, env, Head(names), required), env,
                   Tail(names), required)

\* pc: "idle" before the run, "exited" after it; exit: the status the script
\* exited with.
NoVerify == [pc |-> "idle", env |-> <<>>, status |-> NoStatus, exit |-> 0]

\* verifyEnvironment(): the required names, then the optional names, then
\* process.exit(1) when status.missing > 0 and process.exit(0) otherwise.
verifyEnvironment(env) ==
    LET status == CheckEach(CheckEach(NoStatus, env, requiredEnvVars, TRUE),
                            env, optionalEnvVars, FALSE)
    IN  /\ verify.pc = "idle"
        /\ verify' = [pc |-> "exited", env |-> env, status |-> status,
                      exit |-> IF status.missing > 0 THEN 1 ELSE 0]

Init ==
    /\ rows = <<>>
    /\ now = 0
    /\ caller = [p \in Callers |-> NoCall]
    /\ mail = NoMail
    /\ gen = NoCode
    /\ schema = NoTable
    /\ migrate = NoMigration
    /\ tool = NoRun
    /\ events = {}
    /\ job = NoJob
    /\ verify = NoVerify

\* ------------------------------------------------------------ properties
\* The step is a checkVerificationCode call of caller p.
CheckStep(p) == caller'[p] # caller[p] /\ caller'[p].op = "check"

\* The step is a markVerificationCodeAsUsed call of caller p.
MarkStep(p) ==
    /\ caller'[p].op = "mark"
    /\ caller'[p].calls = (IF caller[p].op = "check" THEN 1 ELSE caller[p].calls + 1)
    /\ caller'[p] # caller[p]

\* Caller p was told that row i is redeemed: its lookup returned i and its
\* markUsed on i returned true.
Redeemed(p, i) == caller[p].marked /\ caller[p].usedId = i

\* Caller p has run both statements of a redemption sequence on row i: its
\* lookup returned i and its UPDATE of i ran.
Finished(p, i) ==
    caller[p].op = "mark" /\ caller[p].usedId = i /\ ~caller[p].fault

\* C1: of the concurrent redemption sequences against one valid code exactly one
\* succeeds: no row is reported redeemed to two callers, and when every caller
\* has run its sequence on the row, one of them was told it redeemed the code.
ExactlyOneRedemption ==
    \A i \in Ids :
        /\ Cardinality({p \in Callers : Redeemed(p, i)}) <= 1
        /\ (\A p \in Callers : Finished(p, i)) => \E p \in Callers : Redeemed(p, i)

\* C2: in every store state and at every time the lookup for (email, code)
\* returns a row iff some stored row has that email and code, is unused and
\* expires strictly later than now, whatever its type; and the row returned
\* carries the email and code asked for.
LookupIffUnusedUnexpiredMatch ==
    \A e \in Emails, c \in Codes :
        /\ (CheckResult(rows, e, c, now) # {Null}) <=>
               (\E i \in Ids : /\ rows[i].email = e
                               /\ rows[i].code = c
                               /\ rows[i].used = FALSE
                               /\ rows[i].expires_at > now)
        /\ \A i \in CheckResult(rows, e, c, now) :
               i # Null => rows[i].email = e /\ rows[i].code = c

\* C3: a lookup never returns a row whose used flag is set, so a row that was
\* marked used is not returned by any later lookup.
UsedRowNeverReturned ==
    [][\A p \in Callers :
          (CheckStep(p) /\ caller'[p].ret # Null) => ~rows[caller'[p].ret].used]_vars

\* C3 witness: a caller marked a row used and then looked its key up again while
\* the row was still unexpired; the lookup returned null.
UsedUnexpiredRowRejected ==
    \E p \in Callers : \E i \in Ids :
        /\ caller[p].op = "check" /\ ~caller[p].fault /\ caller[p].ret = Null
        /\ caller[p].marked /\ caller[p].usedId = i
        /\ rows[i].used /\ rows[i].expires_at > now
        /\ rows[i].email = caller[p].email /\ rows[i].code = caller[p].code

\* The step is the lookup of caller p that follows its successful markUsed, with
\* the same email and code, and the query ran.
RecheckStep(p) ==
    /\ caller[p].op = "mark" /\ caller[p].marked
    /\ CheckStep(p) /\ ~caller'[p].fault
    /\ caller'[p].email = caller[p].email /\ caller'[p].code = caller[p].code

ExpiredRowNeverReturned ==
    [][\A p \in Callers :
          (CheckStep(p) /\ caller'[p].ret # Null)
              => rows[caller'[p].ret].expires_at > now]_vars

\* C5 witness: the lookup of an unused verification row returned null at the
\* instant now = expires_at.
UnusedRowRejectedAtExpiry ==
    \E p \in Callers : \E i \in Ids :
        /\ caller[p].op = "check" /\ ~caller[p].fault /\ caller[p].ret = Null
        /\ rows[i].email = caller[p].email /\ rows[i].code = caller[p].code
        /\ rows[i].type = "verification" /\ ~rows[i].used
        /\ rows[i].expires_at = now

\* C6: a failed send returns the code that was generated for the email.
FailedSendReturnsGeneratedCode ==
    (mail.fn = "testSendVerificationCode" /\ mail.outcome = "returned"
        /\ ~mail.success) => mail.resultCode = mail.code

\* C7: on every provider error the send returns to its caller with a failure
\* result, and a send reports success only after the provider accepted the
\* message.
SendNeverAborts ==
    /\ mail.response \in {"401", "403", "429", "network"}
           => mail.outcome = "returned" /\ ~mail.success
    /\ mail.success => mail.response = "202"

\* What the last call returned to caller p.
Returned(p) ==
    IF caller[p].op = "mark" THEN <<"boolean", caller[p].marked>>
    ELSE <<"id", caller[p].ret>>

\* C8: a call whose query failed returns something no call of the same
\* operation returns when its query ran.
StorageFailureDistinguishable ==
    \A p, q \in Callers :
        (caller[p].op = caller[q].op /\ caller[p].fault /\ ~caller[q].fault)
            => Returned(p) # Returned(q)

\* C9: markUsed on a row that is already used leaves every row as it is, and
\* returns true whenever its UPDATE runs.
MarkUsedIdempotent ==
    [][\A p \in Callers :
          (MarkStep(p) /\ rows[caller'[p].usedId].used)
              => rows' = rows /\ (caller'[p].fault \/ caller'[p].marked)]_vars

\* C9 witness: two callers called markUsed on the same id, one of them twice, and
\* the last call of each returned true: the later of the two found the row used.
MarkedTwice ==
    \E p, q \in Callers :
        /\ p # q
        /\ caller[p].op = "mark" /\ caller[p].calls = 2 /\ caller[p].marked
        /\ caller[q].op = "mark" /\ caller[q].marked
        /\ caller[q].usedId = caller[p].usedId
        /\ rows[caller[p].usedId].used

\* C10: a lookup that immediately follows a create, with the created email and
\* code, returns the created row, whatever the type given to create.
CreateThenLookupFindsRow ==
    [][\A p \in Callers :
          (/\ caller[p].op = "save" /\ caller[p].ret # Null
           /\ rows[caller[p].ret].created_at = now
           /\ CheckStep(p) /\ ~caller'[p].fault
           /\ caller'[p].email = caller[p].email /\ caller'[p].code = caller[p].code)
          => /\ caller'[p].ret = caller[p].ret
             /\ ~rows[caller'[p].ret].used]_vars

\* C11: every code a generateVerificationCode of the repository returns is a
\* string of decimal digits whose numeric value is at least 100000 and at most
\* 999999.
GeneratedCodeInRange ==
    gen.script # "none" =>
        /\ \A i \in 1..Len(gen.code) : gen.code[i] \in 0..9
        /\ parseInt(gen.code) >= 100000
        /\ parseInt(gen.code) <= 999999

\* The stored rows with the given email and code.
Matching(e, c) == {i \in Ids : rows[i].email = e /\ rows[i].code = c}

\* C12: the lookup gives one and the same answer, null, whether the code is
\* wrong (no row is stored with the email and code), expired (every such row is
\* expired) or used (every such row is used).
UnifiedRejection ==
    \A e \in Emails, c \in Codes :
        (\/ Matching(e, c) = {}
         \/ \A i \in Matching(e, c) : rows[i].expires_at <= now
         \/ \A i \in Matching(e, c) : rows[i].used)
            => CheckResult(rows, e, c, now) = {Null}

\* C12 witness: a lookup returned null while an expired unused row and a used
\* unexpired row were stored with its email and code, and a lookup with a code
\* that is not stored returns null as well.
RejectedExpiredAndUsed ==
    \E p \in Callers : \E i, j \in Ids :
        /\ caller[p].op = "check" /\ ~caller[p].fault /\ caller[p].ret = Null
        /\ {i, j} \subseteq Matching(caller[p].email, caller[p].code)
        /\ rows[i].type = "verification" /\ rows[j].type = "verification"
        /\ ~rows[i].used /\ rows[i].expires_at <= now
        /\ rows[j].used /\ rows[j].expires_at > now
        /\ \E c \in Codes : /\ Matching(caller[p].email, c) = {}
                             /\ CheckResult(rows, caller[p].email, c, now) = {Null}

\* The step is a run of ensureVerificationCodesTable().
EnsureStep == migrate'.calls = migrate.calls + 1

\* The last run of ensureVerificationCodesTable() returned true and none of its
\* statements threw.
EnsureSucceeded == migrate.calls > 0 /\ migrate.ret /\ ~migrate.failed

\* C13: from every schema state a successful ensureVerificationCodesTable()
\* leaves the table and all four indexes in place, and a further successful run
\* changes nothing.
EnsureSchemaIdempotentComplete ==
    [][(EnsureStep /\ EnsureSucceeded') =>
           /\ schema'.exists
           /\ schema'.indexes = Indexes
           /\ EnsureSucceeded => schema' = schema]_vars

\* The step is a saveVerificationCode call of caller p.
SaveStep(p) == caller'[p] # caller[p] /\ caller'[p].op = "save"

\* C14: against the table as any table-creation routine of the repository
\* created it, a create of a six-digit code that reaches the database succeeds
\* and inserts exactly one new row, with a fresh id and used = false, leaving
\* the other rows alone.
CreateInsertsOneRow ==
    [][\A p \in Callers :
          (/\ SaveStep(p) /\ caller'[p].reached /\ schema.exists
           /\ Len(caller'[p].code) = 6) =>
              /\ ~caller'[p].fault
              /\ Len(rows') = Len(rows) + 1
              /\ \A i \in Ids : rows'[i] = rows[i]
              /\ caller'[p].ret = rows'[Len(rows')].id
              /\ \A i \in Ids : rows[i].id # rows'[Len(rows')].id
              /\ ~rows'[Len(rows')].used]_vars

\* C15: when several stored rows match the email and code of a lookup, all of
\* them unused and unexpired, the lookup returns one whose creation time is the
\* latest among them.
LatestRowReturned ==
    [][\A p \in Callers :
          (CheckStep(p) /\ ~caller'[p].fault) =>
              LET match == {i \in Matching(caller'[p].email, caller'[p].code) :
                               ~rows[i].used /\ rows[i].expires_at > now}
              IN  Cardinality(match) >= 2 =>
                      /\ caller'[p].ret \in match
                      /\ \A j \in match :
                             rows[j].created_at <= rows[caller'[p].ret].created_at]_vars

\* C16: the used flag is monotone: no step deletes a row or changes a used flag
\* from true back to false.
UsedIsMonotone ==
    [][/\ Len(rows') >= Len(rows)
       /\ \A i \in Ids : rows[i].used => rows'[i].used]_vars

\* C16 witness: a row is used after a repeated markUsed on it whose UPDATE
\* threw, while the lookup of the other caller returned another row.
UsedSurvivesLaterCalls ==
    \E p, q \in Callers : \E i \in Ids :
        /\ caller[p].op = "mark" /\ caller[p].calls = 2 /\ caller[p].fault
        /\ caller[p].usedId = i /\ rows[i].used
        /\ caller[q].op = "check" /\ caller[q].ret \in Ids \ {i}

\* The step is a run of sendVerificationCodeEmail that returned false.
FailedSendStep ==
    /\ mail' # mail
    /\ mail'.fn = "sendVerificationCodeEmail"
    /\ ~mail'.success

\* C17: a failed send leaves the store untouched: every row is as it was, and
\* if the code sent was redeemable before the send, a lookup for it after the
\* send still returns a row.
FailedSendLeavesStore ==
    [][FailedSendStep =>
           /\ rows' = rows
           /\ CheckResult(rows, mail'.to, mail'.code, now) # {Null}
                  => CheckResult(rows', mail'.to, mail'.code, now') # {Null}]_vars

\* C17 witness: the provider refused the message for a code, and the lookup of
\* that code returned its row, which is unused and unexpired.
LookupAfterFailedSend ==
    \E p \in Callers : \E i \in Ids :
        /\ mail.fn = "sendVerificationCodeEmail"
        /\ mail.requests = 1 /\ ~mail.success
        /\ caller[p].op = "check" /\ caller[p].ret = i
        /\ rows[i].email = mail.to /\ rows[i].code = mail.code
        /\ ~rows[i].used /\ rows[i].expires_at > now

\* C18: the only change ever made to a stored row is the used flag set by
\* markUsed on that row's id: create, lookup and send leave every stored row as
\* it was, and markUsed leaves the other fields and the other rows as they were.
OnlyMarkUsedMutates ==
    [][/\ Len(rows') >= Len(rows)
       /\ \A i \in Ids :
             \/ rows'[i] = rows[i]
             \/ \E p \in Callers :
                    /\ MarkStep(p)
                    /\ caller'[p].usedId = i
                    /\ rows'[i] = [rows[i] EXCEPT !.used = TRUE]]_vars

\* C18 witness: after creates, a send and a markUsed on one of two rows of an
\* email, the marked row differs from the row as created in its used flag only
\* and the other row is as it was created.
OtherRowAsCreated ==
    \E p \in Callers : \E i, j \in Ids :
        /\ caller[p].op = "mark" /\ caller[p].marked /\ caller[p].usedId = i
        /\ mail.fn = "sendVerificationCodeEmail"
        /\ i # j /\ rows[j].email = rows[i].email
        /\ rows[i] = [NewRow(i, rows[i].email, rows[i].code, rows[i].type,
                             rows[i].created_at) EXCEPT !.used = TRUE]
        /\ rows[j] = NewRow(j, rows[j].email, rows[j].code, rows[j].type,
                            rows[j].created_at)

\* A six-digit numeric string.
WellFormedCode(c) == Len(c) = 6 /\ \A i \in 1..Len(c) : c[i] \in 0..9

\* C20: a lookup whose code is not a six-digit numeric string is rejected
\* before any statement is sent to the database.
MalformedCodeNotQueried ==
    \A p \in Callers :
        (caller[p].op = "check" /\ ~WellFormedCode(caller[p].code))
            => ~caller[p].reached

\* C19: an input email that fails the format check is rejected before any
\* database statement or provider request: the tool has made no pool.query and
\* no sgMail.send call, no caller record and no row was written, and the send
\* test of part_000 returned false without a request.
InvalidEmailRejectedFirst ==
    /\ (tool.pc # "idle" /\ ~isValidEmail(tool.email)) =>
           /\ tool.pc = "rejected"
           /\ tool.statements = 0 /\ tool.sends = 0
           /\ rows = <<>> /\ caller[1] = NoCall /\ ~schema.exists
           /\ mail.fn # "sendVerificationCodeEmail"
    /\ (mail.fn = "testSendGridVerification" /\ ~isValidEmail(mail.to)) =>
           mail.requests = 0 /\ ~mail.success

\* C19 witness: the tool rejected an email that has an at sign but no dot behind
\* it, and the send test of part_000 returned false for an invalid email that
\* has an at sign, while valid emails do get statements and requests.
InvalidEmailRejected ==
    /\ tool.pc = "rejected" /\ tool.statements = 0
    /\ \E i \in 1..Len(tool.email) : tool.email[i] = "@"
    /\ mail.fn = "testSendGridVerification" /\ mail.requests = 0
    /\ \E i \in 1..Len(mail.to) : mail.to[i] = "@"

\* C21: the workflow is strictly ordered: the email is sent only after the row
\* of its code was persisted, the lookup happens only after the send of that
\* code succeeded, markUsed gets the id the lookup returned, and once a step
\* has failed no later step touches the store or the provider.
WorkflowOrdered ==
    [][/\ mail' # mail =>
              /\ caller[1].op = "save" /\ caller[1].ret # Null
              /\ rows[caller[1].ret].email = mail'.to
              /\ rows[caller[1].ret].code = mail'.code
       /\ CheckStep(1) =>
              /\ mail.fn = "sendVerificationCodeEmail" /\ mail.success
              /\ mail.to = caller'[1].email /\ mail.code = caller'[1].code
       /\ MarkStep(1) =>
              /\ caller[1].op = "check" /\ caller[1].ret # Null
              /\ caller'[1].usedId = caller[1].ret
       /\ (\/ SaveStep(1) /\ caller'[1].ret = Null
           \/ mail' # mail /\ ~mail'.success
           \/ CheckStep(1) /\ caller'[1].ret = Null
           \/ MarkStep(1) /\ ~caller'[1].marked) => tool'.pc = "end"
       /\ tool.pc \in {"end", "closed", "rejected"} =>
              UNCHANGED <<rows, caller, mail, schema>>]_vars

\* C21 witness: a run went through every step: the row was saved, its code was
\* sent, looked up and marked used, and the pool was closed.
WorkflowCompleted ==
    /\ tool.pc = "closed" /\ mail.success /\ mail.code = tool.code
    /\ caller[1].op = "mark" /\ caller[1].marked
    /\ rows[caller[1].usedId].used
    /\ rows[caller[1].usedId].code = tool.code

\* The lifecycle of row i is EXPIRED: its expires_at has elapsed.
Expired(i) == rows[i].expires_at <= now

\* The lifecycle of row i is DELIVERY_FAILED: the send of its code failed.
DeliveryFailed(i) ==
    /\ mail.fn = "sendVerificationCodeEmail" /\ ~mail.success
    /\ mail.to = rows[i].email /\ mail.code = rows[i].code

\* C22: a row whose lifecycle has reached DELIVERY_FAILED or EXPIRED is never
\* set used afterwards.
FailedOrExpiredNeverRedeemed ==
    [][\A i \in Ids :
          (~rows[i].used /\ (Expired(i) \/ DeliveryFailed(i)))
              => ~rows'[i].used]_vars

\* C23: nothing is retried: the last send invocation has issued at most one
\* provider request and the last create, lookup or markUsed invocation of each
\* caller at most one storage statement, whatever the outcome; the tool, which
\* invokes the send once, has sent at most one request in all.
NothingRetried ==
    /\ mail.requests <= 1
    /\ \A p \in Callers : caller[p].queries <= 1
    /\ tool.sends <= 1

\* The provider answered the tool's send of the saved code with a network
\* error: the save and the send were each issued once and the run is over.
FailedOnceNotRetried ==
    /\ mail.fn = "sendVerificationCodeEmail" /\ mail.response = "network"
    /\ ~mail.success /\ mail.requests = 1 /\ tool.sends = 1
    /\ caller[1].op = "save" /\ caller[1].queries = 1
    /\ tool.pc = "closed"

\* C24: no operation deletes a row: every row stored before a step is stored
\* after it, with its id, email, code and expiry, so the set of stored rows
\* only grows; this holds for expired rows and for used rows too.
RowsNeverDeleted ==
    [][\A i \in 1..Len(rows) :
          \E j \in 1..Len(rows') :
              /\ rows'[j].id = rows[i].id
              /\ rows'[j].email = rows[i].email
              /\ rows'[j].code = rows[i].code
              /\ rows'[j].expires_at = rows[i].expires_at]_vars

\* A used row and an expired unused row are both stored, after a send and a
\* lookup that found neither.
UsedAndExpiredRemain ==
    \E i, j \in Ids :
        /\ rows[i].used
        /\ ~rows[j].used /\ rows[j].expires_at <= now
        /\ mail.fn = "sendVerificationCodeEmail"
        /\ caller[1].op = "check" /\ caller[1].ret = Null /\ caller[1].reached

\* C27: ensureVerificationCodesTable() returns true only if the table exists
\* when it returns; when the table could not be created it has returned false.
EnsureTrueOnlyWithTable ==
    (migrate.calls > 0 /\ migrate.ret) => schema.exists

\* An excluded keyword occurs in the text, in whatever case.
HasExcludedKeyword(text) ==
    \E k \in 1..Len(excludedKeywords) :
        Like(toLowerCase(text), excludedKeywords[k])

\* C26: after a run of the public-events job that completed the cleanup, no
\* stored event of source eventbrite has an excluded keyword in its title or in
\* its description, however many events matched.
NoExcludedEventAfterCleanup ==
    job.pc \in {"stats", "done"} =>
        \A e \in events :
            e.event.source = "eventbrite" =>
                /\ ~HasExcludedKeyword(e.event.title)
                /\ ~HasExcludedKeyword(e.event.description)

\* The names of a list that are unset or empty in the environment of the run.
MissingOf(names) ==
    {n \in {names[i] : i \in 1..Len(names)} : verify.env[n] \in {"undefined", ""}}

\* C28: the environment verification script exits with status 1 exactly when a
\* required variable is unset or empty and with status 0 otherwise, whatever
\* optional variables are missing; the total is the number of present variables
\* plus the required missing plus the optional missing ones, every variable
\* being counted once.
ExitStatusAndCounts ==
    verify.pc = "exited" =>
        /\ verify.exit = (IF MissingOf(requiredEnvVars) # {} THEN 1 ELSE 0)
        /\ verify.status.missing = Cardinality(MissingOf(requiredEnvVars))
        /\ verify.status.present =
               Cardinality({n \in EnvNames : Truthy(verify.env[n])})
        /\ verify.status.total =
               verify.status.present + verify.status.missing
                   + Cardinality(MissingOf(optionalEnvVars))
        /\ verify.status.total = Cardinality(EnvNames)

\* The script exited with status 0 in an environment where an optional
\* variable is unset and another one is empty.
ExitZeroWithOptionalMissing ==
    /\ verify.pc = "exited" /\ verify.exit = 0
    /\ verify.env["PORT"] = "undefined"
    /\ verify.env["SESSION_SECRET"] = ""
    /\ verify.status.total = 22 /\ verify.status.present = 20

\* C29: once the email has passed validation, the run of the tool terminates
\* with the pool closed, pool.end() having been called exactly once, whichever
\* step fails, provided every storage and provider call returns or fails.
ValidatedRunClosesPool ==
    /\ [](tool.ends <= 1)
    /\ [](tool.pc = "closed" => tool.ends = 1)
    /\ (tool.pc \notin {"idle", "rejected"}) ~> (tool.pc = "closed" /\ tool.ends = 1)

\* The run is over with the pool closed once after its lookup threw.
ClosedAfterLookupThrew ==
    /\ tool.pc = "closed" /\ tool.ends = 1
    /\ caller[1].op = "check" /\ caller[1].fault /\ caller[1].ret = Null
    /\ mail.success

\* C25: the used flag of a row is set only at a time strictly before the row's
\* expires_at: a markUsed that runs at or after expires_at leaves the flag
\* false.
UsedSetOnlyBeforeExpiry ==
    [][\A p \in Callers :
          MarkStep(p) =>
              LET i == caller'[p].usedId
              IN  (~rows[i].used /\ now >= rows[i].expires_at) => ~rows'[i].used]_vars

\* ------------------------------------------------------------ specifications
\* One statement of one caller, the passing of time, or the tool creating its
\* table.
StoreNext(P, E, C, T) ==
    \/ \E p \in P, e \in E, c \in C, t \in T, ok \in BOOLEAN :
          saveVerificationCode(p, e, c, t, ok)
    \/ \E p \in P, e \in E, c \in C, ok \in BOOLEAN :
          checkVerificationCode(p, e, c, ok)
    \/ \E p \in P, ok \in BOOLEAN : markVerificationCodeAsUsed(p, ok)
    \/ Tick
    \/ \E ok \in BOOLEAN : createVerificationCodesTable(ok)

\* One caller at a time, every email, code and type.
Next == StoreNext({1}, Emails, Codes, Types) /\ UNCHANGED <<gen, migrate, tool, events, job, verify>>

Spec == Init /\ [][Next]_vars

\* Concurrent callers working on the codes of one email.
NextRace ==
    /\ StoreNext(Callers, {"user@test.com"}, {<<6, 5, 4, 3, 2, 1>>},
                 {"verification"})
    /\ UNCHANGED <<gen, migrate, tool, events, job, verify>>

SpecRace == Init /\ [][NextRace]_vars

\* One run of one delivery adapter.
NextSend ==
    /\ \/ \E e \in Emails, c \in Codes, k \in BOOLEAN, f \in BOOLEAN,
             i \in BOOLEAN, a \in Responses :
                sendVerificationCodeEmail(e, c, k, f, i, a)
       \/ \E e \in Emails, r \in RandomDraws, r2 \in RandomDraws, a \in Responses :
                testSendVerificationCode(e, r, r2, a)
       \/ \E e \in Emails, ds \in [1..6 -> {0, RandDenom - 1}], k \in BOOLEAN,
             a \in Responses : sendTestEmail(e, ds, k, a)
    /\ UNCHANGED <<gen, migrate, tool, events, job, verify>>

SpecSend == Init /\ [][NextSend]_vars

\* One call of one generateVerificationCode.
NextGen ==
    /\ \/ \E f \in FloorScripts, r \in RandomDraws : GenerateFloor(f, r)
       \/ \E f \in JoinScripts, ds \in [1..6 -> {0, RandDenom - 1}] :
             GenerateJoin(f, ds)
    /\ UNCHANGED <<migrate, tool, events, job, verify>>

\* The migration script and the tool working on one database; the tool is given
\* the codes of one email, one of them not a six-digit code.
NextSchema ==
    \/ /\ StoreNext({1}, {"user@test.com"}, {<<6, 5, 4, 3, 2, 1>>, <<1, 2, 3>>},
                     {"verification"})
       /\ UNCHANGED <<gen, migrate, tool, events, job, verify>>
    \/ /\ \E fail \in FailPoints : ensureVerificationCodesTable(fail)
       /\ UNCHANGED <<gen, tool, events, job, verify>>

SpecSchema == Init /\ [][NextSchema]_vars

\* The tool's statements for the codes of one email, and its send of one of
\* the codes, with the API key set or missing.
NextDeliver ==
    /\ \/ StoreNext({1}, {"user@test.com"}, Codes, {"verification"})
       \/ \E k \in BOOLEAN, a \in Responses :
             sendVerificationCodeEmail("user@test.com", <<6, 5, 4, 3, 2, 1>>,
                                       k, TRUE, TRUE, a)
    /\ UNCHANGED <<gen, migrate, tool, events, job, verify>>

SpecDeliver == Init /\ [][NextDeliver]_vars

\* One step of run() / runVerificationTest() on an email of E.
RunNext(E) ==
    \/ tool.pc = "idle" /\ \E e \in E : run(e)
    \/ \E ok \in BOOLEAN : runConnect(ok)
    \/ \E ok \in BOOLEAN : runCheckTable(ok)
    \/ \E ok \in BOOLEAN : runCreateTable(ok)
    \/ \E r \in RandomDraws, ok \in BOOLEAN : runSave(r, ok)
    \/ \E k \in BOOLEAN, f \in BOOLEAN, i \in BOOLEAN, a \in Responses :
          runSend(k, f, i, a)
    \/ runWait
    \/ \E ok \in BOOLEAN : runCheck(ok)
    \/ \E ok \in BOOLEAN : runMark(ok)
    \/ runEnd

\* One run of the verification tool on any input email, and the runs of the send
\* test of part_000 on a missing, an invalid or a valid email.
NextTool ==
    \/ /\ RunNext(InputEmails)
       /\ UNCHANGED <<gen, migrate, events, job, verify>>
    \/ /\ \E e \in {<<>>, <<"a", "@", "a">>, <<"a", "@", "a", ".", "a">>},
             r \in {0, RandDenom - 1}, a \in {"202", "403"} :
                testSendGridVerification(e, r, a)
       /\ UNCHANGED <<gen, migrate, tool, events, job, verify>>

SpecTool == Init /\ [][NextTool]_vars

\* One run of the verification tool on an invalid or a valid email, while time
\* passes.
RunStep ==
    /\ RunNext({<<"a", "@", "a">>, <<"a", "@", "a", ".", "a">>})
    /\ UNCHANGED <<gen, migrate, events, job, verify>>

NextRun ==
    \/ RunStep
    \/ Tick /\ UNCHANGED <<gen, migrate, tool, events, job, verify>>

SpecRun == Init /\ [][NextRun]_vars

\* Every storage and provider call of the run eventually returns or fails.
SpecRunFair == SpecRun /\ WF_vars(RunStep)

SpecGen == Init /\ [][NextGen]_vars

\* One run of the public-events job, whose sync stores at most MaxEvents
\* events; every database call may throw.
NextEvents ==
    /\ \/ job.pc = "idle" /\ \E n \in 0..MaxEvents, ok \in BOOLEAN :
              \E f \in [1..n -> EventShapes] : syncAllExternalEvents(Batch(f), ok)
       \/ \E ok \in BOOLEAN : deletePastEvents(ok)
       \/ \E ok \in BOOLEAN : removeKeywordEvents(ok)
       \/ \E ok \in BOOLEAN : printStatistics(ok)
    /\ UNCHANGED <<rows, now, caller, mail, gen, schema, migrate, tool, verify>>

SpecEvents == Init /\ [][NextEvents]_vars

\* One run of the environment verification script.
NextEnv ==
    /\ verify.pc = "idle" /\ \E env \in Environments : verifyEnvironment(env)
    /\ UNCHANGED <<rows, now, caller, mail, gen, schema, migrate, tool, events, job>>

SpecEnv == Init /\ [][NextEnv]_vars

====
